---- MODULE Spec2Model ----
(***************************************************************************)
(* generate_app_icons.py: the icon renderer (create_tenex_icon), the       *)
(* manifest builder (generate_all_icons) and the start-up sequence of the  *)
(* script, as one sequential state machine.                                *)
(*                                                                         *)
(* Strings are TLA+ strings; Len, \o and SubSeq act on them character by   *)
(* character, so substring tests, replace() and formatting are computed.   *)
(* A pixel buffer is a record of its dimensions, its pixels at the probe   *)
(* coordinates (the corners and the middle of the first and last row) and  *)
(* the list of text draws that landed on it.                               *)
(***************************************************************************)
EXTENDS Integers, Sequences, FiniteSets, TLC

VARIABLES
    pc,        \* position of the single thread of control
    pil,       \* the environment: is the imaging library importable
    font,      \* the environment: does /System/Library/Fonts/Helvetica.ttc load
    done,      \* size entries whose loop iteration has completed
    icon,      \* the value of `icon` in generate_all_icons
    images,    \* contents["images"]
    written,   \* files written by this run, in order: [path, data]
    stdout,    \* lines printed
    stderr,    \* uncaught exception reported by the interpreter
    status     \* exit status of the process, -1 while it runs

vars == <<pc, pil, font, done, icon, images, written, stdout, stderr, status>>

(***************************************************************************)
(* String helpers: Python's `in`, str.replace and int formatting.          *)
(***************************************************************************)
Contains(sub, s) ==
    \E k \in 1..(Len(s) - Len(sub) + 1) : SubSeq(s, k, k + Len(sub) - 1) = sub

RECURSIVE Replace(_, _, _)
Replace(s, old, new) ==
    IF Len(s) < Len(old) THEN s
    ELSE IF SubSeq(s, 1, Len(old)) = old
         THEN new \o Replace(SubSeq(s, Len(old) + 1, Len(s)), old, new)
         ELSE SubSeq(s, 1, 1) \o Replace(SubSeq(s, 2, Len(s)), old, new)

RECURSIVE Str(_)
Str(n) ==
    IF n < 10 THEN SubSeq("0123456789", n + 1, n + 1)
    ELSE Str(n \div 10) \o SubSeq("0123456789", (n % 10) + 1, (n % 10) + 1)

(***************************************************************************)
(* The size table, in insertion order.                                     *)
(***************************************************************************)
Entry(f, s, p) == [filename |-> f, size |-> s, scale_info |-> p]

icon_sizes == <<
    Entry("iphone-notification@2x", 40, "20pt"),
    Entry("iphone-notification@3x", 60, "20pt"),
    Entry("iphone-settings@2x", 58, "29pt"),
    Entry("iphone-settings@3x", 87, "29pt"),
    Entry("iphone-spotlight@2x", 80, "40pt"),
    Entry("iphone-spotlight@3x", 120, "40pt"),
    Entry("iphone-app@2x", 120, "60pt"),
    Entry("iphone-app@3x", 180, "60pt"),
    Entry("ipad-notification@1x", 20, "20pt"),
    Entry("ipad-notification@2x", 40, "20pt"),
    Entry("ipad-settings@1x", 29, "29pt"),
    Entry("ipad-settings@2x", 58, "29pt"),
    Entry("ipad-spotlight@1x", 40, "40pt"),
    Entry("ipad-spotlight@2x", 80, "40pt"),
    Entry("ipad-app@1x", 76, "76pt"),
    Entry("ipad-app@2x", 152, "76pt"),
    Entry("ipad-pro-app@2x", 167, "83.5pt"),
    Entry("app-store", 1024, "1024pt") >>

icon_dir ==
    "/Users/pablofernandez/projects/TENEX-kf5rtr/tenex-ios/TENEX/Resources/Assets.xcassets/AppIcon.appiconset"

PathJoin(dir, name) == dir \o "/" \o name

(***************************************************************************)
(* create_tenex_icon.                                                      *)
(***************************************************************************)
Abs(n) == IF n < 0 THEN -n ELSE n

Max(S) == CHOOSE m \in S : \A n \in S : n <= m

\* Lines 14-16 and the fill of line 17. int() of a non-negative float is its
\* floor, so int(214 - q) is 214 - ceil(q).
GradientColor(y, size) ==
    << 88 + ((50 * y) \div size),
       86 + ((100 * y) \div size),
       214 - ((50 * y + size - 1) \div size),
       255 >>

\* Line 17: rectangle [(0, y), (size, y+1)]; both corners belong to it, so
\* iteration y paints rows y and y+1, columns 0..size, clipped to the buffer.
RowsPainted(y) == y..(y + 1)

\* Lines 9-17: the pixel of img after the gradient loop is the fill of the
\* last iteration whose rectangle covers it, or the initial (0, 0, 0, 0).
ImgPixel(size, x, y) ==
    LET painters == {k \in 0..(size - 1) : x \in 0..size /\ y \in RowsPainted(k)}
    IN  IF painters = {} THEN <<0, 0, 0, 0>>
        ELSE GradientColor(Max(painters), size)

\* Line 20.
corner_radius(size) == (size * 2237) \div 10000

\* The imaging library rasterises a circle of bounding box a x a by walking
\* one quarter of its outline in doubled coordinates from (a, a % 2) to
\* (a % 2, a), each time moving to the candidate among (x, y+2), (x-2, y+2),
\* (x-2, y) that deviates least from the circle. The library weighs the
\* deviation by a*a in 64 bits; the common factor is left out here.
QuarterDelta(a, x, y) == Abs(x * x + y * y - a * a)

QuarterNext(a, cx, cy) ==
    LET up   == QuarterDelta(a, cx, cy + 2)
        diag == QuarterDelta(a, cx - 2, cy + 2)
        left == QuarterDelta(a, cx - 2, cy)
    IN  IF cx > 1
        THEN IF up > diag
             THEN IF diag > left THEN <<cx - 2, cy>> ELSE <<cx - 2, cy + 2>>
             ELSE IF up > left THEN <<cx - 2, cy>> ELSE <<cx, cy + 2>>
        ELSE <<cx, cy + 2>>

\* The walk from point p for at most n steps, stopping on row Y or at the end
\* of the quarter; the steps are split in halves to keep the evaluation
\* shallow.
RECURSIVE QuarterWalk(_, _, _, _)
QuarterWalk(a, p, n, Y) ==
    IF n = 0 \/ p[2] = Y \/ (p[1] = a % 2 /\ p[2] = a) THEN p
    ELSE IF n = 1 THEN QuarterNext(a, p[1], p[2])
    ELSE QuarterWalk(a, QuarterWalk(a, p, n \div 2, Y), n - (n \div 2), Y)

\* The right end of the filled span on row Y of the quarter: the first
\* outline point the walk reaches on that row. No walk is longer than a
\* steps.
RowExtent(a, Y) ==
    LET p == QuarterWalk(a, <<a, a % 2>>, a + 1, Y)
    IN  IF p[2] = Y THEN p[1] ELSE -1

\* A filled quarter disc (pieslice) in the box (bx, by)..(bx+d, by+d); qx, qy
\* are the signs of the quarter.
InPieslice(x, y, bx, by, d, qx, qy) ==
    LET X == 2 * (x - bx) - d
        Y == 2 * (y - by) - d
    IN  /\ X * qx >= 0 /\ Y * qy >= 0
        /\ Abs(X) <= d /\ Abs(Y) <= d
        /\ Abs(X) <= RowExtent(d, Abs(Y))

InRect(x, y, ax, ay, bx, by) == x \in ax..bx /\ y \in ay..by

\* Line 23: the box of the rounded rectangle; both corners belong to it.
MaskBox(size) == <<0, 0, size, size>>

\* Lines 21-23: the mask is 0 except inside the rounded rectangle, which the
\* library fills as four quarter discs of diameter 2r and three rectangles
\* (2r is less than the side here, since r = int(0.2237 * size)).
MaskPixel(size, x, y) ==
    LET r  == corner_radius(size)
        d  == 2 * r
        x0 == MaskBox(size)[1]
        y0 == MaskBox(size)[2]
        x1 == MaskBox(size)[3]
        y1 == MaskBox(size)[4]
    IN  IF \/ InPieslice(x, y, x1 - d, y0, d, 1, -1)
           \/ InPieslice(x, y, x1 - d, y1 - d, d, 1, 1)
           \/ InPieslice(x, y, x0, y1 - d, d, -1, 1)
           \/ InPieslice(x, y, x0, y0, d, -1, -1)
           \/ InRect(x, y, x0 + r + 1, y0, x1 - r - 1, y1)
           \/ InRect(x, y, x0, y0 + r + 1, x0 + r, y1 - r - 1)
           \/ InRect(x, y, x1 - r, y0 + r + 1, x1, y1 - r - 1)
        THEN 255 ELSE 0

\* Lines 26-28: paste copies img, putalpha replaces the alpha by the mask.
OutputPixel(size, x, y) ==
    LET p == ImgPixel(size, x, y)
    IN  <<p[1], p[2], p[3], MaskPixel(size, x, y)>>

\* The pixels a buffer is observed at: its corners and the middle of its
\* first and last row.
Probes(size) ==
    { <<0, 0>>, <<size - 1, 0>>, <<0, size - 1>>, <<size - 1, size - 1>>,
      <<size \div 2, 0>>, <<size \div 2, size - 1>> }

\* Lines 33-37.
LoadFont(size, fontOk) ==
    IF fontOk THEN [name |-> "Helvetica.ttc", size |-> (size * 4) \div 10]
    ELSE [name |-> "default", size |-> 0]

\* Line 48.
shadow_offset(size) == IF (size \div 100) > 1 THEN size \div 100 ELSE 1

\* Lines 40-50: the two draws of the label, in order. Each is placed
\* relative to the centred origin (x, y) of lines 44-45, which is lifted by
\* int(size * 0.05).
TextDraws(size, fontOk) ==
    LET f == LoadFont(size, fontOk)
        lift == (size * 5) \div 100
    IN  << [text |-> "TX", font |-> f, lift |-> lift,
            offset |-> shadow_offset(size), fill |-> <<0, 0, 0, 100>>],
           [text |-> "TX", font |-> f, lift |-> lift,
            offset |-> 0, fill |-> <<255, 255, 255, 255>>] >>

\* Line 10: the buffer the drawing context `draw` is bound to.
DrawTarget == "img"

\* Line 52: the buffer the routine returns.
Returned == "output"

create_tenex_icon(size, fontOk) ==
    LET pixel(name, p) ==
            IF name = "img" THEN ImgPixel(size, p[1], p[2])
            ELSE OutputPixel(size, p[1], p[2])
        buffer(name) ==
            [width  |-> size,
             height |-> size,
             px     |-> [p \in Probes(size) |-> pixel(name, p)],
             text   |-> IF name = DrawTarget THEN TextDraws(size, fontOk)
                        ELSE <<>>]
    IN  buffer(Returned)

(***************************************************************************)
(* generate_all_icons: the manifest records.                               *)
(***************************************************************************)
\* Idiom without the tablet branch.
Idiom_PhoneOnly(filename) ==
    IF Contains("iphone", filename) THEN "iphone" ELSE "ios-marketing"

\* Lines 117-122.
Idiom(filename) ==
    IF Contains("iphone", filename) THEN "iphone"
    ELSE IF Contains("ipad", filename) THEN "ipad"
    ELSE "ios-marketing"

\* Scale without the @3x branch.
Scale_NoTriple(filename) ==
    IF Contains("@2x", filename) THEN "2x" ELSE "1x"

\* Lines 124-129.
Scale(filename) ==
    IF Contains("@3x", filename) THEN "3x"
    ELSE IF Contains("@2x", filename) THEN "2x"
    ELSE "1x"

\* The label used as it is, unit included.
PointSize_Unstripped(scale_info) == scale_info

\* Line 132.
PointSize(scale_info) == Replace(scale_info, "pt", "")

\* Lines 135-140.
image_entry(e) ==
    [filename |-> e.filename \o ".png",
     idiom    |-> Idiom(e.filename),
     scale    |-> Scale(e.filename),
     size     |-> PointSize(e.scale_info) \o "x" \o PointSize(e.scale_info)]

\* The list left without the store-listing record.
AppendAppStore_Omitted(imgs) == imgs

\* Lines 145-150.
AppendAppStore(imgs) ==
    Append(imgs, [filename |-> "app-store.png", idiom |-> "ios-marketing",
                  scale |-> "1x", size |-> "1024x1024"])

\* Lines 101-107, with the list as it stands.
Contents(imgs) == [images |-> imgs, info |-> [author |-> "xcode", version |-> 1]]

(***************************************************************************)
(* Start-up.                                                               *)
(***************************************************************************)
Init ==
    /\ pc = "import"
    /\ pil \in BOOLEAN
    /\ font \in BOOLEAN
    /\ done = 0
    /\ icon = [width |-> 0, height |-> 0, px |-> <<>>, text |-> <<>>]
    /\ images = <<>>
    /\ written = <<>>
    /\ stdout = <<>>
    /\ stderr = <<>>
    /\ status = -1

\* An exception nobody catches: traceback on stderr, exit status 1.
Uncaught(exc) ==
    /\ stderr' = Append(stderr, exc)
    /\ status' = 1
    /\ pc' = "exit"

\* Lines 3-5: the module-level imports run before anything else.
ImportModules ==
    /\ pc = "import"
    /\ IF pil
       THEN pc' = "main" /\ UNCHANGED <<stderr, status>>
       ELSE Uncaught("ModuleNotFoundError: No module named 'PIL'")
    /\ UNCHANGED <<pil, font, done, icon, images, written, stdout>>

\* Lines 161-167: the guarded import of the main block.
MainCheck ==
    /\ pc = "main"
    /\ IF pil
       THEN pc' = "loop" /\ UNCHANGED <<stdout, status>>
       ELSE /\ stdout' = Append(stdout,
                  "Error: Pillow library is required. Install it with: pip install Pillow")
            /\ status' = 1
            /\ pc' = "exit"
    /\ UNCHANGED <<pil, font, done, icon, images, written, stderr>>

\* Lines 110-113: the next size entry is announced and rendered.
RenderIcon ==
    /\ pc = "loop"
    /\ done < Len(icon_sizes)
    /\ LET e == icon_sizes[done + 1]
       IN  /\ stdout' = Append(stdout,
                  "Generating " \o e.filename \o ".png (" \o Str(e.size) \o "x"
                  \o Str(e.size) \o ")")
           /\ icon' = create_tenex_icon(e.size, font)
    /\ pc' = "save"
    /\ UNCHANGED <<pil, font, done, images, written, stderr, status>>

\* A failed write that is noted and skipped, the run carrying on.
WriteFailed_Swallowed ==
    /\ stderr' = Append(stderr, "OSError")
    /\ pc' = IF pc = "save" THEN "entry" ELSE "report"
    /\ UNCHANGED <<written, status>>

\* A write that fails raises, and nothing in the script catches it.
WriteFailed ==
    /\ Uncaught("OSError")
    /\ UNCHANGED written

\* Line 114: the icon is written, or the write fails.
SaveIcon ==
    /\ pc = "save"
    /\ \E ok \in BOOLEAN :
         IF ok
         THEN /\ written' = Append(written,
                    [path |-> PathJoin(icon_dir, icon_sizes[done + 1].filename \o ".png"),
                     data |-> icon])
              /\ pc' = "entry"
              /\ UNCHANGED <<stderr, status>>
         ELSE WriteFailed
    /\ UNCHANGED <<pil, font, done, icon, images, stdout>>

\* Lines 116-142: the record of the entry joins the list.
AppendEntry ==
    /\ pc = "entry"
    /\ images' = Append(images, image_entry(icon_sizes[done + 1]))
    /\ done' = done + 1
    /\ pc' = "loop"
    /\ UNCHANGED <<pil, font, icon, written, stdout, stderr, status>>

\* Lines 144-150: after the loop, the store-listing record is appended.
AppStoreEntry ==
    /\ pc = "loop"
    /\ done = Len(icon_sizes)
    /\ images' = AppendAppStore(images)
    /\ pc' = "manifest"
    /\ UNCHANGED <<pil, font, done, icon, written, stdout, stderr, status>>

\* Lines 152-155: Contents.json is written, or the write fails.
WriteContents ==
    /\ pc = "manifest"
    /\ \E ok \in BOOLEAN :
         IF ok
         THEN /\ written' = Append(written,
                    [path |-> PathJoin(icon_dir, "Contents.json"),
                     data |-> Contents(images)])
              /\ pc' = "report"
              /\ UNCHANGED <<stderr, status>>
         ELSE WriteFailed
    /\ UNCHANGED <<pil, font, done, icon, images, stdout>>

\* Lines 157-159 and the normal end of the script.
Report ==
    /\ pc = "report"
    /\ stdout' = stdout \o << "", "All icons generated successfully!",
                             "Icons saved to: " \o icon_dir,
                             "Contents.json updated" >>
    /\ status' = 0
    /\ pc' = "exit"
    /\ UNCHANGED <<pil, font, done, icon, images, written, stderr>>

Next ==
    \/ ImportModules
    \/ MainCheck
    \/ RenderIcon
    \/ SaveIcon
    \/ AppendEntry
    \/ AppStoreEntry
    \/ WriteContents
    \/ Report

Spec == Init /\ [][Next]_vars

(***************************************************************************)
(* Properties.                                                             *)
(***************************************************************************)
ContentsPath == PathJoin(icon_dir, "Contents.json")

IconPath(k) == PathJoin(icon_dir, icon_sizes[k].filename \o ".png")

\* The manifests this run has written (at most one).
Manifests == {written[k].data : k \in {j \in 1..Len(written) : written[j].path = ContentsPath}}

Completed == pc = "exit" /\ status = 0

Rgb(p) == <<p[1], p[2], p[3]>>

Corners(size) ==
    {<<0, 0>>, <<size - 1, 0>>, <<0, size - 1>>, <<size - 1, size - 1>>}

\* Reading a record back: the decimal digits of a string, the point size in
\* tenths (one decimal at most), the scale multiplier.
DigitVal(c) == CHOOSE d \in 0..9 : Str(d) = c

RECURSIVE ParseInt(_)
ParseInt(str) ==
    IF str = "" THEN 0
    ELSE ParseInt(SubSeq(str, 1, Len(str) - 1)) * 10
         + DigitVal(SubSeq(str, Len(str), Len(str)))

IndexOf(c, str) ==
    CHOOSE k \in 1..Len(str) :
        SubSeq(str, k, k) = c /\ \A j \in 1..(k - 1) : SubSeq(str, j, j) # c

Tenths(str) ==
    IF Contains(".", str)
    THEN ParseInt(SubSeq(str, 1, IndexOf(".", str) - 1)) * 10
         + ParseInt(SubSeq(str, IndexOf(".", str) + 1, Len(str)))
    ELSE ParseInt(str) * 10

RecordPoints(rec) == SubSeq(rec.size, 1, IndexOf("x", rec.size) - 1)

ScaleMultiplier(rec) == ParseInt(SubSeq(rec.scale, 1, Len(rec.scale) - 1))

\* C1: a manifest that has been written lists as many records as the size
\* table has entries, plus exactly one.
C1_RecordCount ==
    \A m \in Manifests : Len(m.images) = Len(icon_sizes) + 1

C1_Witness ==
    Completed /\ \E m \in Manifests : Len(m.images) = 19

\* C2: every record emitted carries the idiom its filename decides: "iphone"
\* when the filename contains "iphone", "ipad" when it contains "ipad", and
\* "ios-marketing" otherwise.
C2_IdiomBySubstring ==
    \A k \in 1..Len(images) :
        LET rec == images[k]
        IN  /\ Contains("iphone", rec.filename) => rec.idiom = "iphone"
            /\ Contains("ipad", rec.filename) => rec.idiom = "ipad"
            /\ ~Contains("iphone", rec.filename) /\ ~Contains("ipad", rec.filename)
                   => rec.idiom = "ios-marketing"

C2_Witness ==
    /\ Completed
    /\ \A id \in {"iphone", "ipad", "ios-marketing"} :
           \E m \in Manifests : \E k \in 1..Len(m.images) : m.images[k].idiom = id

\* C3: a written manifest holds, for every size entry, a record named after
\* the identifier with ".png", scaled "3x", "2x" or "1x" as the identifier
\* contains "@3x", "@2x" or neither, and sized "PxP" for the label P + "pt";
\* the entry ("iphone-app@3x", 180, "60pt") gives the record of the example.
C3_RecordPerEntry ==
    \A m \in Manifests :
        /\ \A j \in 1..Len(icon_sizes) :
               LET e == icon_sizes[j]
               IN  \E k \in 1..Len(m.images) :
                       LET rec == m.images[k]
                       IN  /\ rec.filename = e.filename \o ".png"
                           /\ rec.scale = IF Contains("@3x", e.filename) THEN "3x"
                                          ELSE IF Contains("@2x", e.filename) THEN "2x"
                                          ELSE "1x"
                           /\ \E n \in 1..Len(e.scale_info) :
                                  LET P == SubSeq(e.scale_info, 1, n)
                                  IN  /\ e.scale_info = P \o "pt"
                                      /\ rec.size = P \o "x" \o P
        /\ \E k \in 1..Len(m.images) :
               m.images[k] = [filename |-> "iphone-app@3x.png", idiom |-> "iphone",
                              scale |-> "3x", size |-> "60x60"]

C3_Witness ==
    /\ Completed
    /\ \E m \in Manifests : \E k \in 1..Len(m.images) :
           m.images[k].filename = "ipad-pro-app@2x.png" /\ m.images[k].size = "83.5x83.5"

\* C4: in every rendered icon the top row has the first gradient endpoint
\* (88, 86, 214) and the bottom row the second endpoint (138, 186, 164).
C4_GradientEndpoints ==
    pc = "save" =>
        \A p \in DOMAIN icon.px :
            /\ p[2] = 0 => Rgb(icon.px[p]) = <<88, 86, 214>>
            /\ p[2] = icon.height - 1 => Rgb(icon.px[p]) = <<138, 186, 164>>

\* C5: the buffer create_tenex_icon returns, and the file saved from it,
\* carry the label: "TX" drawn as an offset darkened shadow, then in opaque
\* white.
C5_LabelOnReturnedImage ==
    \A k \in 1..Len(written) :
        written[k].path # ContentsPath =>
            LET t == written[k].data.text
            IN  /\ Len(t) = 2
                /\ t[1].text = "TX" /\ t[1].offset > 0 /\ t[1].fill = <<0, 0, 0, 100>>
                /\ t[2].text = "TX" /\ t[2].offset = 0
                /\ t[2].fill = <<255, 255, 255, 255>>

\* C6: whenever the corner radius of a rendered icon is positive, its four
\* corner pixels have alpha 0.
C6_CornersTransparent ==
    pc = "save" /\ corner_radius(icon.width) > 0 =>
        \A p \in Corners(icon.width) : icon.px[p][4] = 0

\* C7: without the imaging library the program ends having reported the
\* error on standard output, with a failure status, nothing rendered and
\* nothing written.
C7_MissingDependencyReported ==
    ~pil /\ pc = "exit" =>
        /\ \E k \in 1..Len(stdout) : Contains("Pillow library is required", stdout[k])
        /\ status = 1
        /\ icon.width = 0
        /\ written = <<>>

\* C8: the files are written in the order of the size table, the manifest
\* last and only after every image; a failed write ends the run with what was
\* written before it, and nothing more.
C8_WriteFailureAborts ==
    /\ Len(written) <= Len(icon_sizes) + 1
    /\ \A k \in 1..Len(written) :
           written[k].path = IF k <= Len(icon_sizes) THEN IconPath(k) ELSE ContentsPath
    /\ pil /\ stderr # <<>> =>
           /\ pc = "exit"
           /\ status = 1
           /\ Len(written) = done
           /\ Manifests = {}

C8_Witness ==
    /\ pil /\ stderr # <<>> /\ pc = "exit"
    /\ Len(written) = 5
    /\ written[5].path = IconPath(5)

\* C9: no two records of a written manifest carry the same filename.
C9_UniqueFilenames ==
    \A m \in Manifests :
        \A j, k \in 1..Len(m.images) :
            j # k => m.images[j].filename # m.images[k].filename

\* C10: for every size entry, the side in pixels of the file written equals
\* the point size of its record times the scale multiplier of its record,
\* which is 1, 2 or 3.
C10_PixelsArePointsTimesScale ==
    \A k \in 1..Len(icon_sizes) :
        k <= Len(images) =>
            LET rec == images[k]
                img == written[k].data
            IN  /\ written[k].path = PathJoin(icon_dir, rec.filename)
                /\ rec.size = RecordPoints(rec) \o "x" \o RecordPoints(rec)
                /\ ScaleMultiplier(rec) \in 1..3
                /\ img.width = img.height
                /\ img.width * 10 = Tenths(RecordPoints(rec)) * ScaleMultiplier(rec)

C10_Witness ==
    /\ Completed
    /\ written[17].data.width = 167
    /\ images[17].size = "83.5x83.5" /\ images[17].scale = "2x"
    /\ written[18].data.width = 1024
    /\ images[18].size = "1024x1024" /\ images[18].scale = "1x"
====
